---- MODULE Spec2Model ----
(***************************************************************************)
(* TrackerObjectDebugger of autoware_multi_object_tracker                  *)
(* (src/debugger/debug_object.cpp): collect() appends one ObjectData per   *)
(* tracker, process() sorts the list by uuid and cuts it into groups,      *)
(* draw()/getMessage() turn the groups into markers, reset() clears the    *)
(* list.                                                                   *)
(*                                                                         *)
(* Numbers: lengths are in tenths of a metre, colours in hundredths,       *)
(* probabilities in units of 1e-5.  A string is a sequence of one-letter   *)
(* strings.  marker.id (a library hash of the uuid), scale and lifetime    *)
(* are not modelled.                                                       *)
(***************************************************************************)
EXTENDS Integers, Sequences, FiniteSets, TLC

\* ------------------------------------------------------------------ bounds
\* the longest tracker list of one collect() call
MaxTrackers == 3
\* a collect() call is given no detection or MaxDetections detections
MaxDetections == 2
\* the records collected over a whole run
MaxRecords == 3
\* the collect() calls of a whole run
MaxCollects == 2
\* the longest tracker list of the two channel calls that are made in both orders
MaxPairTrackers == 2

\* ------------------------------------------------------------- identities
UUID_SIZE == 16

HexChars == <<"0", "1", "2", "3", "4", "5", "6", "7",
              "8", "9", "a", "b", "c", "d", "e", "f">>

\* ss << std::hex << std::setfill('0') << std::setw(2) << +uuid[i]
HexByte(b) == <<HexChars[(b \div 16) + 1], HexChars[(b % 16) + 1]>>

RECURSIVE HexFrom(_, _)
HexFrom(bytes, i) ==
  IF i > UUID_SIZE THEN <<>> ELSE HexByte(bytes[i]) \o HexFrom(bytes, i + 1)

uuidToString(uuid_msg) == HexFrom(uuid_msg, 1)

\* the value of one hexadecimal digit, as boost's string_generator reads it
HexValue(c) == (CHOOSE k \in 1..16 : HexChars[k] = c) - 1

\* boost::uuids::string_generator on 32 hexadecimal digits: two digits a byte
string_generator(str) ==
  [i \in 1..UUID_SIZE |-> HexValue(str[2 * i - 1]) * 16 + HexValue(str[2 * i])]

uuidToBoostUuid(uuid_msg) == string_generator(uuidToString(uuid_msg))

\* boost::uuids::operator< : the 16 bytes compared from the first one on
RECURSIVE LessFrom(_, _, _)
LessFrom(a, b, i) ==
  IF i > UUID_SIZE THEN FALSE
  ELSE IF a[i] # b[i] THEN a[i] < b[i]
  ELSE LessFrom(a, b, i + 1)

\* a comparison that looks at the first half of the bytes only
uuid_less_half(a, b) ==
  LessFrom([i \in 1..UUID_SIZE |-> IF 2 * i <= UUID_SIZE THEN a[i] ELSE 0],
           [i \in 1..UUID_SIZE |-> IF 2 * i <= UUID_SIZE THEN b[i] ELSE 0], 1)

uuid_less(a, b) == LessFrom(a, b, 1)

\* --------------------------------------------------------- configuration
\* channels_config_: the short names of the input channels
channels_config_ == <<[short_name |-> <<"L">>], [short_name |-> <<"R">>]>>

channel_size == Len(channels_config_)

frame_id_ == "map"

\* ----------------------------------------------------------------- inputs
Point(x, y, z) == [x |-> x, y |-> y, z |-> z]

ZeroBytes == [i \in 1..UUID_SIZE |-> 0]

\* the trackers of the pipeline: uuid, position, existence probabilities
Tracker1 ==
  [uuid_msg |-> [ZeroBytes EXCEPT ![1] = 1],
   position |-> Point(10, 20, 0),
   existence_vector |-> <<85600, 100>>,
   total_existence_probability |-> 85600]

Tracker2 ==
  [uuid_msg |-> [ZeroBytes EXCEPT ![UUID_SIZE] = 255],
   position |-> Point(30, 40, 5),
   existence_vector |-> <<101, 50000>>,
   total_existence_probability |-> 50000]

Tracker3 ==
  [uuid_msg |-> [ZeroBytes EXCEPT ![UUID_SIZE] = 10],
   position |-> Point(50, 60, 10),
   existence_vector |-> <<0, 0>>,
   total_existence_probability |-> 0]

Trackers == {Tracker1, Tracker2, Tracker3}

\* Tracker::getTrackedObject: the uuid and the pose of the tracked object
getTrackedObject(tracker) ==
  [uuid |-> tracker.uuid_msg, position |-> tracker.position]

\* Tracker::getUuidString: the uuid in hexadecimal
getUuidString(tracker) == uuidToString(tracker.uuid_msg)

\* the lists of distinct trackers of at most n entries
TrackerLists(n) ==
  UNION {{s \in [1..k -> Trackers] : \A i, j \in 1..k : i # j => s[i] # s[j]} :
         k \in 0..n}

\* the tracker lists a collect() call is given
AllTrackerLists == TrackerLists(MaxTrackers)

\* the i-th detection of a channel (0-based, as the association map counts)
DetectionAt(i) == Point(100 + 10 * i, 200 + 10 * i, 1 + i)

DetectedObjects(n, channel) ==
  [objects |-> [i \in 1..n |-> DetectionAt(i - 1)], channel_index |-> channel]

\* the association maps of k trackers over n detections: tracker index ->
\* detection index; the index n is past the end of the detection list
Assignments(k, n) ==
  UNION {[D -> 0..n] : D \in SUBSET (0..(k - 1))}

\* --------------------------------------------------------------- the state
VARIABLES
  is_initialized_,      \* set by the first collect()
  message_time_,        \* the time of the last collect()
  object_data_list_,    \* the records accumulated by collect()
  object_data_groups_,  \* the groups built by process()
  markers_,             \* the member marker array (never filled)
  op,                   \* the last call and what it was given
  marker_array,         \* the caller's array after getMessage(), else empty
  reset_clean,          \* reset() was called and collect() not since
  n_collects,           \* collect() calls so far
  n_records,            \* records collected so far
  pair                  \* two debuggers given the same two calls in both orders

vars == <<is_initialized_, message_time_, object_data_list_, object_data_groups_,
          markers_, op, marker_array, reset_clean, n_collects, n_records, pair>>

\* ----------------------------------------------------------------- collect
\* direct_assignment.find(tracker_idx) != direct_assignment.end()
IsAssigned(tracker_idx, direct_assignment) == tracker_idx \in DOMAIN direct_assignment

\* a detection point that is never taken from the detections
DetectionPointOf_tracker(tracker_point, tracker_idx, detected_objects, direct_assignment) ==
  tracker_point

\* the detection point of a tracker: the mapped detection, or the tracker's
\* own point when the map has no entry for it
DetectionPointOf(tracker_point, tracker_idx, detected_objects, direct_assignment) ==
  IF IsAssigned(tracker_idx, direct_assignment)
  THEN detected_objects.objects[direct_assignment[tracker_idx] + 1]
  ELSE tracker_point

\* the record of one tracker (the body of the loop, when .at() does not throw)
ObjectDataOf(message_time, tracker, tracker_idx, detected_objects, direct_assignment) ==
  LET tracked_object == getTrackedObject(tracker)
      tracker_point == tracked_object.position
      found == IsAssigned(tracker_idx, direct_assignment)
      detection_point ==
        DetectionPointOf(tracker_point, tracker_idx, detected_objects, direct_assignment)
  IN [time |-> message_time,
      uuid |-> uuidToBoostUuid(tracked_object.uuid),
      uuid_str |-> getUuidString(tracker),
      channel_id |-> detected_objects.channel_index,
      tracker_point |-> tracker_point,
      detection_point |-> detection_point,
      is_associated |-> found,
      existence_vector |-> tracker.existence_vector,
      total_existence_probability |-> tracker.total_existence_probability]

\* detected_objects.objects.at(i) throws std::out_of_range
AtThrows(tracker_idx, detected_objects, direct_assignment) ==
  /\ IsAssigned(tracker_idx, direct_assignment)
  /\ direct_assignment[tracker_idx] >= Len(detected_objects.objects)

\* a list that keeps the last record only
push_back_replace(list, object_data) == <<object_data>>

\* object_data_list_.push_back(object_data)
push_back(list, object_data) == Append(list, object_data)

\* a loop that takes back the records of the call when it is left by the
\* exception
RECURSIVE CollectLoop_rollback(_, _, _, _, _, _)
CollectLoop_rollback(list, message_time, list_tracker, pos, detected_objects, direct_assignment) ==
  IF pos > Len(list_tracker) THEN [list |-> list, threw |-> FALSE]
  ELSE IF AtThrows(pos - 1, detected_objects, direct_assignment)
       THEN [list |-> SubSeq(list, 1, Len(list) - (pos - 1)), threw |-> TRUE]
  ELSE CollectLoop_rollback(
         push_back(list, ObjectDataOf(message_time, list_tracker[pos], pos - 1,
                                      detected_objects, direct_assignment)),
         message_time, list_tracker, pos + 1, detected_objects, direct_assignment)

\* the loop over list_tracker from position pos on: the list it leaves and
\* whether it was left by the exception
RECURSIVE CollectLoop(_, _, _, _, _, _)
CollectLoop(list, message_time, list_tracker, pos, detected_objects, direct_assignment) ==
  IF pos > Len(list_tracker) THEN [list |-> list, threw |-> FALSE]
  ELSE IF AtThrows(pos - 1, detected_objects, direct_assignment)
       THEN [list |-> list, threw |-> TRUE]
  ELSE CollectLoop(
         push_back(list, ObjectDataOf(message_time, list_tracker[pos], pos - 1,
                                      detected_objects, direct_assignment)),
         message_time, list_tracker, pos + 1, detected_objects, direct_assignment)

NoCall == [name |-> "none"]

NoPair == [pc |-> "none"]

\* bool is_initialized_ of a debugger just constructed
is_initialized_default == FALSE

Init ==
  /\ is_initialized_ = is_initialized_default
  /\ message_time_ = 0
  /\ object_data_list_ = <<>>
  /\ object_data_groups_ = <<>>
  /\ markers_ = <<>>
  /\ op = NoCall
  /\ marker_array = <<>>
  /\ reset_clean = FALSE
  /\ n_collects = 0
  /\ n_records = 0
  /\ pair = NoPair

\* a reset that takes the debugger back to the state before the first collect()
reset_uninitialize ==
  /\ object_data_list_' = <<>>
  /\ markers_' = <<>>
  /\ is_initialized_' = FALSE
  /\ op' = [name |-> "reset"]
  /\ marker_array' = <<>>
  /\ reset_clean' = TRUE
  /\ UNCHANGED <<message_time_, object_data_groups_, n_collects, n_records, pair>>

reset ==
  /\ object_data_list_' = <<>>
  /\ markers_' = <<>>
  /\ op' = [name |-> "reset"]
  /\ marker_array' = <<>>
  /\ reset_clean' = TRUE
  /\ UNCHANGED <<is_initialized_, message_time_, object_data_groups_,
                 n_collects, n_records, pair>>

collect ==
  /\ n_collects < MaxCollects
  /\ \E list_tracker \in AllTrackerLists,
        n \in {0, MaxDetections}, channel \in 0..(channel_size - 1) :
       /\ n_records + Len(list_tracker) <= MaxRecords
       /\ \E direct_assignment \in Assignments(Len(list_tracker), n) :
            LET message_time == n_collects + 1
                detected_objects == DetectedObjects(n, channel)
                done == CollectLoop(object_data_list_, message_time, list_tracker, 1,
                                    detected_objects, direct_assignment)
            IN /\ is_initialized_' = TRUE
               /\ message_time_' = message_time
               /\ object_data_list_' = done.list
               /\ op' = [name |-> "collect",
                         message_time |-> message_time,
                         list_tracker |-> list_tracker,
                         detected_objects |-> detected_objects,
                         direct_assignment |-> direct_assignment,
                         before |-> object_data_list_,
                         threw |-> done.threw]
               /\ n_records' = n_records + Len(list_tracker)
  /\ n_collects' = n_collects + 1
  /\ marker_array' = <<>>
  /\ reset_clean' = FALSE
  /\ UNCHANGED <<object_data_groups_, markers_, pair>>

\* ----------------------------------------------------------------- process
\* std::sort with the comparison a.uuid < b.uuid: the list comes out in some
\* order in which no record precedes one of a smaller uuid; std::sort keeps
\* no order among records of equal uuid
IsSortedByUuid(list) ==
  \A i, j \in 1..Len(list) : i < j => ~uuid_less(list[j].uuid, list[i].uuid)

SortOutcomes(list) ==
  {sorted \in {[i \in 1..Len(list) |-> list[p[i]]] : p \in Permutations(1..Len(list))} :
     IsSortedByUuid(sorted)}

\* the loop over the sorted list from position pos on
RECURSIVE GroupLoop(_, _, _, _, _)
GroupLoop(list, pos, previous_uuid, object_data_group, groups) ==
  IF pos > Len(list) THEN Append(groups, object_data_group)
  ELSE IF list[pos].uuid # previous_uuid
       THEN GroupLoop(list, pos + 1, list[pos].uuid, <<list[pos]>>,
                      Append(groups, object_data_group))
  ELSE GroupLoop(list, pos + 1, previous_uuid, Append(object_data_group, list[pos]),
                 groups)

\* the walk without the push of the last group
GroupsOf_unclosed(sorted) ==
  LET groups == GroupLoop(sorted, 1, sorted[1].uuid, <<>>, <<>>)
  IN SubSeq(groups, 1, Len(groups) - 1)

\* the walk with every group cut to its first record
GroupsOf_frontOnly(sorted) ==
  LET groups == GroupLoop(sorted, 1, sorted[1].uuid, <<>>, <<>>)
  IN [g \in 1..Len(groups) |-> <<groups[g][1]>>]

GroupsOf(sorted) == GroupLoop(sorted, 1, sorted[1].uuid, <<>>, <<>>)

\* what process() can leave of a debugger d: nothing changes before the first
\* collect() and on an empty list; otherwise the list is sorted and the groups
\* are rebuilt from it
ProcessOutcomes(d) ==
  IF ~d.is_initialized_ \/ d.object_data_list_ = <<>> THEN {d}
  ELSE {[d EXCEPT !.object_data_list_ = sorted, !.object_data_groups_ = GroupsOf(sorted)] :
          sorted \in SortOutcomes(d.object_data_list_)}

\* the debugger itself
Self ==
  [is_initialized_ |-> is_initialized_,
   object_data_list_ |-> object_data_list_,
   object_data_groups_ |-> object_data_groups_]

process ==
  /\ \E d \in ProcessOutcomes(Self) :
       /\ object_data_list_' = d.object_data_list_
       /\ object_data_groups_' = d.object_data_groups_
  /\ op' = [name |-> "process", before |-> object_data_list_]
  /\ marker_array' = <<>>
  /\ UNCHANGED <<is_initialized_, message_time_, markers_, reset_clean,
                 n_collects, n_records, pair>>

\* -------------------------------------------------------------------- draw
PALETTE_SIZE == 16

color_array ==
  <<<<0, 0, 100>>, <<0, 100, 0>>, <<100, 100, 0>>, <<100, 0, 0>>,
    <<0, 100, 100>>, <<100, 0, 100>>, <<100, 64, 0>>, <<75, 100, 0>>,
    <<0, 50, 50>>, <<50, 0, 50>>, <<100, 75, 80>>, <<65, 17, 17>>,
    <<50, 0, 0>>, <<50, 50, 0>>, <<0, 0, 50>>, <<50, 50, 50>>>>

Color(r, g, b, a) == [r |-> r, g |-> g, b |-> b, a |-> a]

marker_height_offset == 10
assign_height_offset == 6

\* existence_vector[i] < 0.00101, in units of 1e-5
ExistenceThreshold == 101

Digits == <<"0", "1", "2", "3", "4", "5", "6", "7", "8", "9">>

\* std::to_string of an int that is not negative
RECURSIVE to_string(_)
to_string(n) ==
  IF n < 10 THEN <<Digits[n + 1]>> ELSE Append(to_string(n \div 10), Digits[(n % 10) + 1])

\* static_cast<int>(probability * 100): the fraction is cut off
Percent(probability) == (probability * 100) \div 100000

\* entries that leave out a channel whose value is exactly the threshold
RECURSIVE ChannelText_inclusive(_, _)
ChannelText_inclusive(existence_vector, i) ==
  IF i >= channel_size THEN <<>>
  ELSE IF existence_vector[i + 1] <= ExistenceThreshold
       THEN ChannelText_inclusive(existence_vector, i + 1)
  ELSE channels_config_[i + 1].short_name
         \o to_string(Percent(existence_vector[i + 1])) \o <<":">>
         \o ChannelText_inclusive(existence_vector, i + 1)

\* the entries of the channels from i on (0-based)
RECURSIVE ChannelText(_, _)
ChannelText(existence_vector, i) ==
  IF i >= channel_size THEN <<>>
  ELSE IF existence_vector[i + 1] < ExistenceThreshold
       THEN ChannelText(existence_vector, i + 1)
  ELSE channels_config_[i + 1].short_name
         \o to_string(Percent(existence_vector[i + 1])) \o <<":">>
         \o ChannelText(existence_vector, i + 1)

\* std::string::substr(0, count)
substr0(str, count) == SubSeq(str, 1, IF Len(str) < count THEN Len(str) ELSE count)

pop_back(str) == SubSeq(str, 1, Len(str) - 1)

existence_probability_text(front) ==
  LET text == <<"t", "o", "t", "a", "l", ":">>
                \o to_string(Percent(front.total_existence_probability)) \o <<"\n">>
                \o ChannelText(front.existence_vector, 0)
      popped == IF text # <<>> THEN pop_back(text) ELSE text
  IN popped \o <<"\n">> \o substr0(front.uuid_str, 6)

\* the reference marker of a group
ReferenceMarker(front) ==
  [frame_id |-> frame_id_,
   stamp |-> front.time,
   position |-> Point(0, 0, 0),
   color |-> Color(100, 100, 100, 100),
   ns |-> <<>>, type |-> "", action |-> "", points |-> <<>>, text |-> <<>>]

TrackBoxPoint(object_data) ==
  Point(object_data.tracker_point.x, object_data.tracker_point.y,
        object_data.tracker_point.z + marker_height_offset)

DetectBoxPoint(object_data) ==
  Point(object_data.detection_point.x, object_data.detection_point.y,
        object_data.detection_point.z + marker_height_offset + assign_height_offset)

\* the points the loop over the group pushes, from position pos on
RECURSIVE TrackBoxPoints(_, _)
TrackBoxPoints(group, pos) ==
  IF pos > Len(group) THEN <<>>
  ELSE <<TrackBoxPoint(group[pos])>> \o TrackBoxPoints(group, pos + 1)

\* detection boxes put in the marker of every channel, whatever the record's channel
RECURSIVE DetectBoxPoints_anyChannel(_, _, _)
DetectBoxPoints_anyChannel(group, pos, idx) ==
  IF pos > Len(group) THEN <<>>
  ELSE IF ~group[pos].is_associated
       THEN DetectBoxPoints_anyChannel(group, pos + 1, idx)
  ELSE <<DetectBoxPoint(group[pos])>> \o DetectBoxPoints_anyChannel(group, pos + 1, idx)

RECURSIVE DetectBoxPoints(_, _, _)
DetectBoxPoints(group, pos, idx) ==
  IF pos > Len(group) THEN <<>>
  ELSE IF ~group[pos].is_associated \/ group[pos].channel_id # idx
       THEN DetectBoxPoints(group, pos + 1, idx)
  ELSE <<DetectBoxPoint(group[pos])>> \o DetectBoxPoints(group, pos + 1, idx)

RECURSIVE LinePoints(_, _, _)
LinePoints(group, pos, idx) ==
  IF pos > Len(group) THEN <<>>
  ELSE IF ~group[pos].is_associated \/ group[pos].channel_id # idx
       THEN LinePoints(group, pos + 1, idx)
  ELSE <<TrackBoxPoint(group[pos]), DetectBoxPoint(group[pos])>>
         \o LinePoints(group, pos + 1, idx)

\* an association flag taken from the first record only
GroupIsAssociated_front(group) == group[1].is_associated

\* bool is_associated of the loop: some record of the group is associated
GroupIsAssociated(group) == \E pos \in 1..Len(group) : group[pos].is_associated

ChannelColor(idx) ==
  Color(color_array[(idx % PALETTE_SIZE) + 1][1], color_array[(idx % PALETTE_SIZE) + 1][2],
        color_array[(idx % PALETTE_SIZE) + 1][3], 90)

\* markers that are never flagged for removal
ActionOf_add(points) == "ADD"

\* action = DELETE when the marker has no point
ActionOf(points) == IF points = <<>> THEN "DELETE" ELSE "ADD"

DetectBoxesMarker(group, idx) ==
  LET points == DetectBoxPoints(group, 1, idx)
  IN [ReferenceMarker(group[1]) EXCEPT
        !.ns = <<"detect_boxes_">> \o channels_config_[idx + 1].short_name,
        !.type = "CUBE_LIST",
        !.action = ActionOf(points),
        !.color = ChannelColor(idx),
        !.points = points]

LinesMarker(group, idx) ==
  LET points == LinePoints(group, 1, idx)
  IN [ReferenceMarker(group[1]) EXCEPT
        !.ns = <<"association_lines_">> \o channels_config_[idx + 1].short_name,
        !.type = "LINE_LIST",
        !.action = ActionOf(points),
        !.color = ChannelColor(idx),
        !.points = points]

TextMarker(group) ==
  [ReferenceMarker(group[1]) EXCEPT
     !.ns = <<"existence_probability">>,
     !.type = "TEXT_VIEW_FACING",
     !.action = "ADD",
     !.position = Point(group[1].tracker_point.x, group[1].tracker_point.y,
                        group[1].tracker_point.z + 25),
     !.color = IF GroupIsAssociated(group) THEN Color(100, 100, 100, 100)
               ELSE Color(50, 50, 50, 90),
     !.text = existence_probability_text(group[1])]

TrackBoxesMarker(group) ==
  [ReferenceMarker(group[1]) EXCEPT
     !.ns = <<"track_boxes">>,
     !.type = "CUBE_LIST",
     !.action = "ADD",
     !.color = IF GroupIsAssociated(group) THEN Color(100, 100, 100, 90)
               ELSE Color(50, 50, 50, 80),
     !.points = TrackBoxPoints(group, 1)]

\* the markers of one group with the lines pushed before the detection boxes
GroupMarkers_linesFirst(group) ==
  [i \in 1..channel_size |-> LinesMarker(group, i - 1)]
    \o [i \in 1..channel_size |-> DetectBoxesMarker(group, i - 1)]
    \o <<TextMarker(group), TrackBoxesMarker(group)>>

\* the markers pushed for one group
GroupMarkers(group) ==
  [i \in 1..channel_size |-> DetectBoxesMarker(group, i - 1)]
    \o [i \in 1..channel_size |-> LinesMarker(group, i - 1)]
    \o <<TextMarker(group), TrackBoxesMarker(group)>>

\* draw: the marker array is cleared and filled group by group
RECURSIVE DrawFrom(_, _)
DrawFrom(object_data_groups, g) ==
  IF g > Len(object_data_groups) THEN <<>>
  ELSE IF object_data_groups[g] = <<>> THEN DrawFrom(object_data_groups, g + 1)
  ELSE GroupMarkers(object_data_groups[g]) \o DrawFrom(object_data_groups, g + 1)

draw(object_data_groups) == DrawFrom(object_data_groups, 1)

\* a marker a caller may have left in the array it passes
StaleMarker ==
  [ReferenceMarker([time |-> 0]) EXCEPT !.ns = <<"stale">>, !.action = "ADD"]

CallerArrays == {<<>>, <<StaleMarker>>}

\* getMessage without the check of is_initialized_
getMessageResult_unguarded(initialized, object_data_groups, given) ==
  draw(object_data_groups)

\* getMessage on the array the caller passes: untouched before the first
\* collect(), the drawing of the groups after it
\* a query that groups and draws the list as it is at the time of the call
getMessageResult_live(initialized, object_data_groups, given) ==
  IF ~initialized THEN given
  ELSE IF object_data_list_ = <<>> THEN <<>>
  ELSE draw(GroupsOf(CHOOSE sorted \in SortOutcomes(object_data_list_) : TRUE))

getMessageResult(initialized, object_data_groups, given) ==
  IF ~initialized THEN given ELSE draw(object_data_groups)

\* a query that consumes the groups it has drawn
getMessage_clearing ==
  /\ \E given \in CallerArrays :
       /\ marker_array' = getMessageResult(is_initialized_, object_data_groups_, given)
       /\ op' = [name |-> "getMessage", given |-> given,
                 repeated |-> op.name = "getMessage"]
  /\ object_data_groups_' = <<>>
  /\ UNCHANGED <<is_initialized_, message_time_, object_data_list_,
                 markers_, reset_clean, n_collects, n_records, pair>>

\* op.repeated: the call before this one was a getMessage() too
getMessage ==
  /\ \E given \in CallerArrays :
       /\ marker_array' = getMessageResult(is_initialized_, object_data_groups_, given)
       /\ op' = [name |-> "getMessage", given |-> given,
                 repeated |-> op.name = "getMessage"]
  /\ UNCHANGED <<is_initialized_, message_time_, object_data_list_,
                 object_data_groups_, markers_, reset_clean, n_collects, n_records,
                 pair>>

Next == reset \/ collect \/ process \/ getMessage

Spec == Init /\ [][Next]_vars

\* --------------------------------------------- two channel calls, both orders
\* Two debuggers just constructed are given the same two channel calls, one
\* in the order A, B and the other in the order B, A; process() follows.
\* what collect() leaves of a debugger d when no .at() throws
CollectCall(d, call, list_tracker) ==
  [d EXCEPT
     !.is_initialized_ = TRUE,
     !.object_data_list_ =
       CollectLoop(d.object_data_list_, call.message_time, list_tracker, 1,
                   call.detected_objects, call.direct_assignment).list]

\* the association maps whose detection indices are all in the list
InRangeAssignments(k, n) ==
  {m \in Assignments(k, n) : \A i \in DOMAIN m : m[i] < n}

\* a channel call at message time t
ChannelCalls(k, channel, t) ==
  UNION {{[message_time |-> t,
           detected_objects |-> DetectedObjects(n, channel),
           direct_assignment |-> m] : m \in InRangeAssignments(k, n)} :
         n \in {0, MaxDetections}}

Constructed ==
  [is_initialized_ |-> is_initialized_default,
   object_data_list_ |-> <<>>,
   object_data_groups_ |-> <<>>]

PairInit ==
  /\ is_initialized_ = is_initialized_default
  /\ message_time_ = 0
  /\ object_data_list_ = <<>>
  /\ object_data_groups_ = <<>>
  /\ markers_ = <<>>
  /\ op = NoCall
  /\ marker_array = <<>>
  /\ reset_clean = FALSE
  /\ n_collects = 0
  /\ n_records = 0
  /\ \E list_tracker \in TrackerLists(MaxPairTrackers),
        channelA, channelB \in 0..(channel_size - 1) :
       /\ channelA # channelB
       /\ \E callA \in ChannelCalls(Len(list_tracker), channelA, 1),
             callB \in ChannelCalls(Len(list_tracker), channelB, 2) :
            pair = [pc |-> "constructed", list_tracker |-> list_tracker,
                    callA |-> callA, callB |-> callB,
                    ab |-> Constructed, ba |-> Constructed]

PairUnchanged ==
  UNCHANGED <<is_initialized_, message_time_, object_data_list_, object_data_groups_,
              markers_, op, marker_array, reset_clean, n_collects, n_records>>

PairCollectFirst ==
  /\ pair.pc = "constructed"
  /\ pair' = [pair EXCEPT
                !.pc = "first",
                !.ab = CollectCall(pair.ab, pair.callA, pair.list_tracker),
                !.ba = CollectCall(pair.ba, pair.callB, pair.list_tracker)]
  /\ PairUnchanged

PairCollectSecond ==
  /\ pair.pc = "first"
  /\ pair' = [pair EXCEPT
                !.pc = "second",
                !.ab = CollectCall(pair.ab, pair.callB, pair.list_tracker),
                !.ba = CollectCall(pair.ba, pair.callA, pair.list_tracker)]
  /\ PairUnchanged

PairProcess ==
  /\ pair.pc = "second"
  /\ \E ab \in ProcessOutcomes(pair.ab), ba \in ProcessOutcomes(pair.ba) :
       pair' = [pair EXCEPT !.pc = "processed", !.ab = ab, !.ba = ba]
  /\ PairUnchanged

PairNext == PairCollectFirst \/ PairCollectSecond \/ PairProcess

PairSpec == PairInit /\ [][PairNext]_vars

\* ------------------------------------------------------------------ claims
Range(seq) == {seq[i] : i \in 1..Len(seq)}

RECURSIVE Flatten(_)
Flatten(groups) == IF groups = <<>> THEN <<>> ELSE Head(groups) \o Flatten(Tail(groups))

Count(seq, r) == Cardinality({i \in 1..Len(seq) : seq[i] = r})

\* the order of two identities as 128-bit numbers, the first byte the highest:
\* they agree up to some byte, where a has the smaller one
IdentityBefore(a, b) ==
  \E k \in 1..UUID_SIZE : a[k] < b[k] /\ \A j \in 1..(k - 1) : a[j] = b[j]

\* the markers of one group in the output: 2N + 2 of them
Stride == 2 * channel_size + 2
DetectBoxOf(g, idx) == marker_array[(g - 1) * Stride + idx + 1]
LineOf(g, idx) == marker_array[(g - 1) * Stride + channel_size + idx + 1]
LabelOf(g) == marker_array[(g - 1) * Stride + 2 * channel_size + 1]
TrackBoxOf(g) == marker_array[(g - 1) * Stride + 2 * channel_size + 2]

\* getMessage() has just drawn the groups
Rendered == op.name = "getMessage" /\ is_initialized_

\* C1: a getMessage() after reset() and before any new collect() yields an
\* empty marker array, whatever was collected and processed before the reset
\* (the caller passing an empty array).
C1_EmptyAfterReset ==
  (op.name = "getMessage" /\ reset_clean /\ op.given = <<>>) => marker_array = <<>>

\* C2: after any process() call the groups hold only records of the current
\* accumulation list, also when process() runs on the empty list after reset().
C2_GroupsFromCurrentList ==
  op.name = "process" =>
    \A g \in 1..Len(object_data_groups_) :
      Range(object_data_groups_[g]) \subseteq Range(object_data_list_)

\* C3: as long as collect() was never called, there are no groups and
\* getMessage() leaves the caller's marker array as it was given (empty when
\* given empty), whatever process(), reset() and getMessage() calls were made.
C3_NothingBeforeCollect ==
  n_collects = 0 =>
    /\ object_data_groups_ = <<>>
    /\ op.name = "getMessage" => marker_array = op.given

C3_Witness ==
  /\ n_collects = 0
  /\ reset_clean
  /\ op.name = "getMessage"
  /\ op.given # <<>>

\* C4: after process() on a non-empty list the groups partition the list by
\* identity: no group is empty, the members of a group share one identity, no
\* two groups share an identity, there are as many groups as identities, and
\* every record of the list is in exactly one group.
C4_GroupsPartitionByIdentity ==
  (op.name = "process" /\ object_data_list_ # <<>>) =>
    LET groups == object_data_groups_
        flat == Flatten(groups)
    IN /\ \A g \in 1..Len(groups) : groups[g] # <<>>
       /\ \A g \in 1..Len(groups) : \A r \in Range(groups[g]) : r.uuid = groups[g][1].uuid
       /\ \A g, h \in 1..Len(groups) : g # h => groups[g][1].uuid # groups[h][1].uuid
       /\ Len(groups) = Cardinality({r.uuid : r \in Range(object_data_list_)})
       /\ Len(flat) = Len(object_data_list_)
       /\ \A r \in Range(object_data_list_) : Count(flat, r) = Count(object_data_list_, r)

C4_Witness ==
  /\ op.name = "process"
  /\ Len(object_data_groups_) = 2
  /\ \E g \in 1..2 : Len(object_data_groups_[g]) = 2
  /\ op.before # object_data_list_

\* C5: every record a collect() call appends for a tracker has is_associated
\* exactly when the tracker's index is a key of the association map;
\* detection_point is then the point of the mapped detection, and the
\* tracker's own point otherwise.
C5_AssociationOfRecord ==
  op.name = "collect" =>
    \A i \in 1..(Len(object_data_list_) - Len(op.before)) :
      LET record == object_data_list_[Len(op.before) + i]
          tracker == op.list_tracker[i]
          mapped == (i - 1) \in DOMAIN op.direct_assignment
      IN /\ record.is_associated = mapped
         /\ record.tracker_point = tracker.position
         /\ mapped => record.detection_point =
                        op.detected_objects.objects[op.direct_assignment[i - 1] + 1]
         /\ ~mapped => record.detection_point = record.tracker_point

C5_Witness ==
  /\ op.name = "collect"
  /\ ~op.threw
  /\ Len(op.list_tracker) = 3
  /\ DOMAIN op.direct_assignment = {0, 2}
  /\ op.direct_assignment[0] = 1
  /\ op.direct_assignment[2] = 0

\* C6: a collect() call leaves the records accumulated before in place and
\* unchanged, and a call that returns appends after them one record per
\* tracker, in the order of the trackers (none for an empty tracker list).
C6_CollectAppends ==
  op.name = "collect" =>
    /\ Len(object_data_list_) >= Len(op.before)
    /\ SubSeq(object_data_list_, 1, Len(op.before)) = op.before
    /\ ~op.threw =>
         /\ Len(object_data_list_) = Len(op.before) + Len(op.list_tracker)
         /\ \A i \in 1..Len(op.list_tracker) :
              /\ object_data_list_[Len(op.before) + i].uuid_str =
                   getUuidString(op.list_tracker[i])
              /\ object_data_list_[Len(op.before) + i].channel_id =
                   op.detected_objects.channel_index

C6_Witness ==
  /\ op.name = "collect"
  /\ ~op.threw
  /\ Len(op.before) = 1
  /\ Len(op.list_tracker) = 2
  /\ op.before[1].channel_id # op.detected_objects.channel_index

\* C7: the groups built by process() are in strictly ascending order of the
\* 128-bit identity; three records of three identities collected by one call,
\* in any order, give three groups of one record each.
C7_GroupsAscending ==
  (op.name = "process" /\ object_data_list_ # <<>>) =>
    /\ \A g \in 1..(Len(object_data_groups_) - 1) :
         IdentityBefore(object_data_groups_[g][1].uuid, object_data_groups_[g + 1][1].uuid)
    /\ ( /\ Len(op.before) = 3
         /\ Cardinality({r.uuid : r \in Range(op.before)}) = 3
         /\ Cardinality({<<r.channel_id, r.time>> : r \in Range(op.before)}) = 1 )
       => /\ Len(object_data_groups_) = 3
          /\ \A g \in 1..3 : Len(object_data_groups_[g]) = 1

C7_Witness ==
  /\ op.name = "process"
  /\ Len(op.before) = 3
  /\ Len(object_data_groups_) = 3
  /\ IdentityBefore(op.before[3].uuid, op.before[2].uuid)
  /\ IdentityBefore(op.before[2].uuid, op.before[1].uuid)

\* the groups as sets of records
GroupSets(groups) == {Range(groups[g]) : g \in 1..Len(groups)}

\* C8: the same trackers collected on channel A and then on channel B give,
\* after process(), the same groups as sets of records as collected on
\* channel B and then on channel A.
C8_ChannelOrderIndependent ==
  pair.pc = "processed" =>
    GroupSets(pair.ab.object_data_groups_) = GroupSets(pair.ba.object_data_groups_)

C8_Witness ==
  /\ pair.pc = "processed"
  /\ Len(pair.list_tracker) = 2
  /\ Len(pair.ab.object_data_groups_) = 2
  /\ \A g \in 1..2 : Len(pair.ab.object_data_groups_[g]) = 2
  /\ pair.ab.object_data_groups_ # pair.ba.object_data_groups_
  /\ pair.callA.direct_assignment # pair.callB.direct_assignment

\* C9: in the output, the label and the track box of a group are gray exactly
\* when no record of the group is associated, and white otherwise.
C9_DimmedIffUnassociated ==
  Rendered =>
    /\ Len(marker_array) = Len(object_data_groups_) * Stride
    /\ \A g \in 1..Len(object_data_groups_) :
         LET associated == \E r \in Range(object_data_groups_[g]) : r.is_associated
         IN /\ LabelOf(g).ns = <<"existence_probability">>
            /\ TrackBoxOf(g).ns = <<"track_boxes">>
            /\ associated => /\ LabelOf(g).color = Color(100, 100, 100, 100)
                             /\ TrackBoxOf(g).color = Color(100, 100, 100, 90)
            /\ ~associated => /\ LabelOf(g).color = Color(50, 50, 50, 90)
                              /\ TrackBoxOf(g).color = Color(50, 50, 50, 80)

C9_Witness ==
  /\ Rendered
  /\ Len(object_data_groups_) = 2
  /\ LabelOf(1).color = Color(50, 50, 50, 90)
  /\ LabelOf(2).color = Color(100, 100, 100, 100)
  /\ Len(object_data_groups_[2]) = 2
  /\ ~object_data_groups_[2][1].is_associated

\* C10: in the output, every group has the detection box marker and the
\* association line marker of every channel; each is flagged DELETE exactly
\* when it has no point and ADD otherwise.
C10_EmptyMarkersFlagged ==
  Rendered =>
    /\ Len(marker_array) = Len(object_data_groups_) * Stride
    /\ \A g \in 1..Len(object_data_groups_) : \A idx \in 0..(channel_size - 1) :
         /\ DetectBoxOf(g, idx).ns =
              <<"detect_boxes_">> \o channels_config_[idx + 1].short_name
         /\ LineOf(g, idx).ns =
              <<"association_lines_">> \o channels_config_[idx + 1].short_name
         /\ DetectBoxOf(g, idx).action =
              IF DetectBoxOf(g, idx).points = <<>> THEN "DELETE" ELSE "ADD"
         /\ LineOf(g, idx).action =
              IF LineOf(g, idx).points = <<>> THEN "DELETE" ELSE "ADD"
         /\ (DetectBoxOf(g, idx).points = <<>>) <=>
              ~\E r \in Range(object_data_groups_[g]) :
                 r.is_associated /\ r.channel_id = idx

C10_Witness ==
  /\ Rendered
  /\ Len(object_data_groups_) >= 1
  /\ DetectBoxOf(1, 0).action = "ADD"
  /\ LineOf(1, 0).action = "ADD"
  /\ DetectBoxOf(1, 1).action = "DELETE"
  /\ LineOf(1, 1).action = "DELETE"

\* the pieces of a string between the occurrences of a separator
RECURSIVE SplitBy(_, _)
SplitBy(str, sep) ==
  IF \A i \in 1..Len(str) : str[i] # sep THEN <<str>>
  ELSE LET k == CHOOSE i \in 1..Len(str) :
                  str[i] = sep /\ \A j \in 1..(i - 1) : str[j] # sep
       IN <<SubSeq(str, 1, k - 1)>> \o SplitBy(SubSeq(str, k + 1, Len(str)), sep)

\* the decimal numeral of a percentage
Numeral(n) ==
  IF n < 10 THEN <<Digits[n + 1]>>
  ELSE IF n < 100 THEN <<Digits[(n \div 10) + 1], Digits[(n % 10) + 1]>>
  ELSE <<"1", "0", "0">>

\* the channel entries of a label text: the pieces of its middle line
EntriesOf(text) ==
  LET lines == SplitBy(text, "\n")
  IN IF Len(lines) = 3 /\ lines[2] # <<>> THEN SplitBy(lines[2], ":") ELSE <<>>

\* an entry of channel idx: its short name and an integer percentage
IsEntryOf(entry, idx) ==
  \E n \in 0..100 : entry = channels_config_[idx + 1].short_name \o Numeral(n)

\* C11: in the label text of a group, channel i has an entry (its short name
\* and an integer percentage) exactly when the first record's
\* existence_vector[i] is at least 0.00101 (101 in units of 1e-5).
C11_EntryIffAtThreshold ==
  Rendered =>
    /\ Len(marker_array) = Len(object_data_groups_) * Stride
    /\ \A g \in 1..Len(object_data_groups_) : \A idx \in 0..(channel_size - 1) :
         (object_data_groups_[g][1].existence_vector[idx + 1] >= 101)
           <=> \E e \in Range(EntriesOf(LabelOf(g).text)) : IsEntryOf(e, idx)

C11_Witness ==
  /\ Rendered
  /\ Len(object_data_groups_) = 3
  /\ \E g \in 1..3 : object_data_groups_[g][1].existence_vector = <<101, 50000>>
  /\ \E g \in 1..3 : object_data_groups_[g][1].existence_vector = <<85600, 100>>
  /\ \E g \in 1..3 : object_data_groups_[g][1].existence_vector = <<0, 0>>

\* one tracker, associated on channel 0 only: a single group whose associated
\* records are all of channel 0, with at least one of them
AssociatedOnChannel0Only ==
  /\ Len(object_data_groups_) = 1
  /\ \E r \in Range(object_data_groups_[1]) : r.is_associated
  /\ \A r \in Range(object_data_groups_[1]) : r.is_associated => r.channel_id = 0

C13_GetMessagePureRead ==
  [][op'.name = "getMessage" =>
       /\ object_data_list_' = object_data_list_
       /\ object_data_groups_' = object_data_groups_
       /\ is_initialized_' = is_initialized_
       /\ (op.name = "getMessage" /\ (is_initialized_ \/ op'.given = op.given))
            => marker_array' = marker_array]_vars

C13_Witness ==
  /\ op.name = "getMessage"
  /\ op.repeated
  /\ is_initialized_
  /\ marker_array # <<>>
  /\ object_data_list_ # <<>>
  /\ op.given # <<>>

\* A tracker list holds a tracker once and every collect() call has its own
\* time, so two records of one identity are of different calls and the one
\* appended first is the one of the smaller time.
\* C14: within every group built by process(), the records are in the order
\* in which collect() appended them, so the first record of the group is the
\* earliest collected record of its identity.
C14_GroupsInAppendOrder ==
  (op.name = "process" /\ is_initialized_ /\ object_data_list_ # <<>>) =>
    \A g \in 1..Len(object_data_groups_) :
      \A i, j \in 1..Len(object_data_groups_[g]) :
        i < j => object_data_groups_[g][i].time < object_data_groups_[g][j].time

\* the entries of the channels that pass the threshold, from channel i on
RECURSIVE PassingEntries(_, _)
PassingEntries(existence_vector, i) ==
  IF i >= channel_size THEN <<>>
  ELSE IF existence_vector[i + 1] >= 101
       THEN <<channels_config_[i + 1].short_name
                \o to_string(Percent(existence_vector[i + 1]))>>
              \o PassingEntries(existence_vector, i + 1)
  ELSE PassingEntries(existence_vector, i + 1)

\* entries with a separator between them and none at the end
RECURSIVE Joined(_)
Joined(entries) ==
  IF entries = <<>> THEN <<>>
  ELSE IF Len(entries) = 1 THEN entries[1]
  ELSE entries[1] \o <<":">> \o Joined(Tail(entries))

\* the label text as described: total line, entries, newline, identity
DescribedText(front) ==
  <<"t", "o", "t", "a", "l", ":">>
    \o to_string(Percent(front.total_existence_probability)) \o <<"\n">>
    \o Joined(PassingEntries(front.existence_vector, 0)) \o <<"\n">>
    \o SubSeq(front.uuid_str, 1, 6)

\* C15: the label text of every group is the total line with its newline,
\* the entries of the channels that pass the threshold separated by ":" with
\* no separator at the end, a newline and the first 6 characters of the
\* identity string, also when no channel passes the threshold.
C15_LabelTextLayout ==
  Rendered =>
    /\ Len(marker_array) = Len(object_data_groups_) * Stride
    /\ \A g \in 1..Len(object_data_groups_) :
         LabelOf(g).text = DescribedText(object_data_groups_[g][1])

\* a probability (in units of 1e-5) times 100, rounded to the nearest integer
Rounded(probability) == (probability * 100 + 50000) \div 100000

\* C16: the percentages of the label, the total and the one of every channel
\* that has an entry, are the probability times 100 rounded to the nearest
\* integer.
C16_PercentagesRounded ==
  Rendered =>
    /\ Len(marker_array) = Len(object_data_groups_) * Stride
    /\ \A g \in 1..Len(object_data_groups_) :
         LET front == object_data_groups_[g][1]
             text == LabelOf(g).text
         IN /\ SplitBy(text, "\n")[1] =
                 <<"t", "o", "t", "a", "l", ":">>
                   \o Numeral(Rounded(front.total_existence_probability))
            /\ \A idx \in 0..(channel_size - 1) :
                 \A e \in Range(EntriesOf(text)) :
                   IsEntryOf(e, idx) =>
                     e = channels_config_[idx + 1].short_name
                           \o Numeral(Rounded(front.existence_vector[idx + 1]))

\* C17: for N channels and G groups the output has exactly G * (2N + 2)
\* markers; group by group, in the ascending identity order of the groups,
\* they are the N detection box markers in channel order, the N association
\* line markers in channel order, the label and the track box.
C17_OutputLayout ==
  Rendered =>
    LET N == Len(channels_config_)
        G == Len(object_data_groups_)
        At(g, k) == marker_array[(g - 1) * (2 * N + 2) + k]
    IN /\ Len(marker_array) = G * (2 * N + 2)
       /\ \A g \in 1..(G - 1) :
            IdentityBefore(object_data_groups_[g][1].uuid,
                           object_data_groups_[g + 1][1].uuid)
       /\ \A g \in 1..G :
            LET group == object_data_groups_[g]
            IN /\ \A k \in 1..(2 * N + 2) : At(g, k).stamp = group[1].time
               /\ \A i \in 1..N :
                    /\ At(g, i).ns = <<"detect_boxes_">> \o channels_config_[i].short_name
                    /\ At(g, i).type = "CUBE_LIST"
                    /\ Len(At(g, i).points) =
                         Cardinality({pos \in 1..Len(group) :
                            group[pos].is_associated /\ group[pos].channel_id = i - 1})
                    /\ At(g, N + i).ns =
                         <<"association_lines_">> \o channels_config_[i].short_name
                    /\ At(g, N + i).type = "LINE_LIST"
                    /\ Len(At(g, N + i).points) = 2 * Len(At(g, i).points)
               /\ At(g, 2 * N + 1).ns = <<"existence_probability">>
               /\ At(g, 2 * N + 1).type = "TEXT_VIEW_FACING"
               /\ SplitBy(At(g, 2 * N + 1).text, "\n")
                    [Len(SplitBy(At(g, 2 * N + 1).text, "\n"))] = SubSeq(group[1].uuid_str, 1, 6)
               /\ At(g, 2 * N + 2).ns = <<"track_boxes">>
               /\ At(g, 2 * N + 2).type = "CUBE_LIST"
               /\ Len(At(g, 2 * N + 2).points) = Len(group)

C17_Witness ==
  /\ Rendered
  /\ Len(object_data_groups_) = 3
  /\ Len(marker_array) = 18
  /\ \E g \in 1..3 : \E r \in Range(object_data_groups_[g]) :
       r.is_associated /\ r.channel_id = 1

\* what a getMessage() call made now, on an empty array, would return
WouldRender == getMessageResult(is_initialized_, object_data_groups_, <<>>)

\* C18: a collect() call made after the first one leaves what getMessage()
\* returns as it was: the output is drawn from the groups of the last
\* process() call that rebuilt them, not from the records collected since.
C18_CollectLeavesOutput ==
  [][(op'.name = "collect" /\ is_initialized_)
       => /\ object_data_groups_' = object_data_groups_
          /\ WouldRender' = WouldRender]_vars

\* markers returned after a collect() that followed the process() call
C18_Witness ==
  /\ Rendered
  /\ marker_array # <<>>
  /\ marker_array = WouldRender
  /\ \E r \in Range(object_data_list_) :
       /\ r \notin Range(Flatten(object_data_groups_))
       /\ \A q \in Range(Flatten(object_data_groups_)) : q.time < r.time

\* the positions (from 1) of the trackers of the last collect() call that the
\* association map sends to an index outside the detection sequence
OutOfRangeTrackers ==
  {i \in 1..Len(op.list_tracker) :
     /\ (i - 1) \in DOMAIN op.direct_assignment
     /\ op.direct_assignment[i - 1] \notin 0..(Len(op.detected_objects.objects) - 1)}

\* C19: a collect() call whose association map sends a tracker to a
\* detection index outside the detection sequence stops with the
\* out-of-range error at the first such tracker: is_initialized_ is set, the
\* records of the trackers before it are appended, in order, and none is
\* appended for it or for a later tracker.
C19_OutOfRangeStopsCollect ==
  op.name = "collect" =>
    /\ op.threw <=> OutOfRangeTrackers # {}
    /\ OutOfRangeTrackers # {} =>
         LET first == CHOOSE i \in OutOfRangeTrackers :
                        \A j \in OutOfRangeTrackers : i <= j
         IN /\ is_initialized_
            /\ Len(object_data_list_) = Len(op.before) + first - 1
            /\ SubSeq(object_data_list_, 1, Len(op.before)) = op.before
            /\ \A i \in 1..(first - 1) :
                 /\ object_data_list_[Len(op.before) + i].uuid_str =
                      getUuidString(op.list_tracker[i])
                 /\ object_data_list_[Len(op.before) + i].time = op.message_time

C19_Witness ==
  /\ op.name = "collect"
  /\ op.threw
  /\ n_collects = 1
  /\ is_initialized_
  /\ Len(op.list_tracker) = 3
  /\ Len(object_data_list_) = 1
  /\ 1 \in DOMAIN op.direct_assignment
  /\ op.direct_assignment[1] = Len(op.detected_objects.objects)

\* C20: is_initialized_ is monotonic: every collect() call leaves it true,
\* also a call with an empty tracker list, and no call, reset() included,
\* takes it from true to false.
C20_InitializedMonotonic ==
  [][/\ is_initialized_ => is_initialized_'
     /\ op'.name = "collect" => is_initialized_']_vars

\* a reset() after a first collect() of an empty tracker list
C20_Witness ==
  /\ op.name = "reset"
  /\ n_collects = 1
  /\ n_records = 0
  /\ object_data_list_ = <<>>
  /\ is_initialized_
====
